---- MODULE Spec2Model ----
(***************************************************************************)
(* ezstats: the UI state machine (src/ui.rs), the display loop             *)
(* (src/main.rs), the cached GPU monitor (src/gpu.rs) and the bar chart    *)
(* widget (src/widget.rs) and the Apple GPU monitor (src/mac_gpu.rs).       *)
(*                                                                         *)
(* Time is in milliseconds; an Instant is an integer.  A key event is a    *)
(* record [code, mods]; code is the character of KeyCode::Char or the name *)
(* of another KeyCode.                                                     *)
(***************************************************************************)
EXTENDS Integers, Sequences, FiniteSets, TLC

VARIABLES
    features,     \* cargo features the binary was built with
    state,        \* ui.rs UiState
    now,          \* the monotonic clock (Instant::now())
    pc,           \* main.rs: position of SystemMonitor::display in its loop
    refreshes,    \* number of System::refresh_all() calls so far (Host Sampler)
    frames,       \* number of frames display has drawn completely
    monitor,      \* gpu.rs GpuMonitor
    hw,           \* the answers the NVML backend can give to a probe
    last_probe,   \* time and result of the most recent refresh_gpu_info()
    gpu_ret,      \* what the most recent get_gpu_info() returned
    forced,       \* 'r' was pressed and no Host Sampler refresh followed yet
    terminal,     \* the terminal's modes (Terminal Driver)
    frame,        \* this iteration of display: what was read, what was drawn
    chart,        \* widget.rs: the most recent BarChart::new, its arguments
    wall,         \* the second the wall clock shows and the sine it gives
    mac,          \* mac_gpu.rs MacGpuMonitor, its two mutexes included
    callers,      \* the threads inside MacGpuMonitor::get_gpu_info
    synth,        \* the most recent synthesized utilization
    render,       \* ui.rs: the most recent painter call and its coordinates
    last          \* the most recent operation, its argument and its result

vars == <<features, state, now, pc, refreshes, frames, monitor, hw,
          last_probe, gpu_ret, forced, terminal, frame, chart, wall, mac,
          callers, synth, render, last>>

----------------------------------------------------------------------------
(* Bounds of the model *)

MaxTime == 1000
MaxDevices == 2
MaxSecs == 39
ValueSlack == 2
WidthSlack == 2

\* the steps by which the clock advances between operations
Delays == {250, 500}

----------------------------------------------------------------------------
(* Program constants *)

CacheDuration == 500
ForceInitialRefresh == 10000
RefreshRate == 1000
MB == 1048576

----------------------------------------------------------------------------
(* ui.rs: ViewType and Views *)

GpuFeature(f) == ("nvidia-gpu" \in f) \/ ("apple-gpu" \in f)

ViewType(f) ==
    IF GpuFeature(f)
    THEN {"Overview", "CpuDetailed", "MemoryDetailed", "GpuDetailed", "Help"}
    ELSE {"Overview", "CpuDetailed", "MemoryDetailed", "Help"}

\* iter().position(|&v| v == x): the first index holding x, 0 for None
Position(s, x) ==
    IF \E i \in 1..Len(s) : s[i] = x
    THEN CHOOSE i \in 1..Len(s) : s[i] = x /\ \A j \in 1..(i - 1) : s[j] # x
    ELSE 0

Contains(s, x) == \E i \in 1..Len(s) : s[i] = x

\* mutants of Views_new: the start view is the GPU view; the GPU view is
\* registered in every build
Views_new_StartAtGpu(f) ==
    [current   |-> "GpuDetailed",
     available |-> <<"Overview", "CpuDetailed", "MemoryDetailed">>
                   \o (IF GpuFeature(f) THEN <<"GpuDetailed">> ELSE <<>>)
                   \o <<"Help">>]

Views_new_AlwaysGpu(f) ==
    [current   |-> "Overview",
     available |-> <<"Overview", "CpuDetailed", "MemoryDetailed", "GpuDetailed",
                     "Help">>]

Views_new(f) ==
    [current   |-> "Overview",
     available |-> <<"Overview", "CpuDetailed", "MemoryDetailed">>
                   \o (IF GpuFeature(f) THEN <<"GpuDetailed">> ELSE <<>>)
                   \o <<"Help">>]

\* mutant of Views_next: the index saturates at the last view
Views_next_NoWrap(v) ==
    LET index == Position(v.available, v.current) IN
    IF index # 0
    THEN [v EXCEPT !.current =
              v.available[IF index = Len(v.available) THEN index ELSE index + 1]]
    ELSE v

\* indices are 1-based here: index 0-based i is i + 1
Views_next(v) ==
    LET index == Position(v.available, v.current) IN
    IF index # 0
    THEN [v EXCEPT !.current = v.available[(index % Len(v.available)) + 1]]
    ELSE v

\* mutant of Views_prev: the index saturates at the first view
Views_prev_NoWrap(v) ==
    LET index == Position(v.available, v.current) IN
    IF index # 0
    THEN [v EXCEPT !.current = v.available[IF index = 1 THEN 1 ELSE index - 1]]
    ELSE v

Views_prev(v) ==
    LET index == Position(v.available, v.current) IN
    IF index # 0
    THEN [v EXCEPT !.current =
              v.available[IF index = 1 THEN Len(v.available) ELSE index - 1]]
    ELSE v

\* mutant of Views_go_to: no membership test
Views_go_to_Unchecked(v, view_type) == [v EXCEPT !.current = view_type]

Views_go_to(v, view_type) ==
    IF Contains(v.available, view_type)
    THEN [v EXCEPT !.current = view_type]
    ELSE v

----------------------------------------------------------------------------
(* ui.rs: UiState *)

UiState_new(f, t) ==
    [views             |-> Views_new(f),
     running           |-> TRUE,
     automatic_refresh |-> TRUE,
     last_update       |-> t,
     show_help_line    |-> TRUE]

\* mutant of toggle_automatic_refresh: 'p' also restarts a stopped UI
toggle_automatic_refresh_Resume(s) ==
    [s EXCEPT !.automatic_refresh = ~s.automatic_refresh, !.running = TRUE]

\* mutant of toggle_automatic_refresh: 'p' only pauses
toggle_automatic_refresh_PauseOnly(s) == [s EXCEPT !.automatic_refresh = FALSE]

toggle_automatic_refresh(s) ==
    [s EXCEPT !.automatic_refresh = ~s.automatic_refresh]

\* mutant of should_update: strictly more than refresh_rate must have elapsed
should_update_Strict(s, refresh_rate, t) ==
    s.automatic_refresh /\ (t - s.last_update > refresh_rate)

should_update(s, refresh_rate, t) ==
    s.automatic_refresh /\ (t - s.last_update >= refresh_rate)

\* mutant of mark_updated: the timestamp is left as it is
mark_updated_Stale(s, t) == s

mark_updated(s, t) == [s EXCEPT !.last_update = t]

----------------------------------------------------------------------------
(* ui.rs: handle_key_event *)

KeyCodes ==
    {"q", "Esc", "c", "Tab", "BackTab", "1", "2", "3", "4", "?", "h", "p", "r",
     "x"}

Key(code) == [code |-> code, mods |-> {}]

Ctrl(code) == [code |-> code, mods |-> {"CONTROL"}]

\* every key without a modifier, and Ctrl+C, Ctrl+X
KeyEvents == {Key(c) : c \in KeyCodes} \cup {Ctrl("c"), Ctrl("x")}

\* the keys the loop's claims are about
LoopKeys == {Key("p"), Key("r"), Key("q")}

NoKey == [code |-> "None", mods |-> {}]

\* mutant of IsQuitKey: 'c' quits whatever the modifiers
IsQuitKey_AnyC(k) == k.code \in {"q", "Esc", "c"}

IsQuitKey(k) ==
    \/ k.code \in {"q", "Esc"}
    \/ (k.code = "c" /\ "CONTROL" \in k.mods)

\* mutant of handle_key_event: the '4' arm is compiled into every build
handle_key_event_Ungated4(f, key_event, s, t) ==
    IF IsQuitKey(key_event)
    THEN [state |-> [s EXCEPT !.running = FALSE], ret |-> TRUE]
    ELSE CASE key_event.code = "Tab" ->
                [state |-> [s EXCEPT !.views = Views_next(s.views)], ret |-> TRUE]
           [] key_event.code = "BackTab" ->
                [state |-> [s EXCEPT !.views = Views_prev(s.views)], ret |-> TRUE]
           [] key_event.code = "1" ->
                [state |-> [s EXCEPT !.views = Views_go_to(s.views, "Overview")],
                 ret |-> TRUE]
           [] key_event.code = "2" ->
                [state |-> [s EXCEPT !.views = Views_go_to(s.views, "CpuDetailed")],
                 ret |-> TRUE]
           [] key_event.code = "3" ->
                [state |-> [s EXCEPT !.views = Views_go_to(s.views, "MemoryDetailed")],
                 ret |-> TRUE]
           [] key_event.code = "4" ->
                [state |-> [s EXCEPT !.views = Views_go_to(s.views, "GpuDetailed")],
                 ret |-> TRUE]
           [] key_event.code \in {"?", "h"} ->
                [state |-> [s EXCEPT !.views = Views_go_to(s.views, "Help")],
                 ret |-> TRUE]
           [] key_event.code = "p" ->
                [state |-> toggle_automatic_refresh(s), ret |-> TRUE]
           [] key_event.code = "r" ->
                [state |-> mark_updated(s, t), ret |-> TRUE]
           [] OTHER -> [state |-> s, ret |-> FALSE]

\* mutant of handle_key_event: an unbound key reports a repaint
handle_key_event_Repaint(f, key_event, s, t) ==
    IF IsQuitKey(key_event)
    THEN [state |-> [s EXCEPT !.running = FALSE], ret |-> TRUE]
    ELSE CASE key_event.code = "Tab" ->
                [state |-> [s EXCEPT !.views = Views_next(s.views)], ret |-> TRUE]
           [] key_event.code = "BackTab" ->
                [state |-> [s EXCEPT !.views = Views_prev(s.views)], ret |-> TRUE]
           [] key_event.code = "1" ->
                [state |-> [s EXCEPT !.views = Views_go_to(s.views, "Overview")],
                 ret |-> TRUE]
           [] key_event.code = "2" ->
                [state |-> [s EXCEPT !.views = Views_go_to(s.views, "CpuDetailed")],
                 ret |-> TRUE]
           [] key_event.code = "3" ->
                [state |-> [s EXCEPT !.views = Views_go_to(s.views, "MemoryDetailed")],
                 ret |-> TRUE]
           [] key_event.code = "4" /\ GpuFeature(f) ->
                [state |-> [s EXCEPT !.views = Views_go_to(s.views, "GpuDetailed")],
                 ret |-> TRUE]
           [] key_event.code \in {"?", "h"} ->
                [state |-> [s EXCEPT !.views = Views_go_to(s.views, "Help")],
                 ret |-> TRUE]
           [] key_event.code = "p" ->
                [state |-> toggle_automatic_refresh(s), ret |-> TRUE]
           [] key_event.code = "r" ->
                [state |-> mark_updated(s, t), ret |-> TRUE]
           [] OTHER -> [state |-> s, ret |-> TRUE]

\* the state after the call and the value returned
handle_key_event(f, key_event, s, t) ==
    IF IsQuitKey(key_event)
    THEN [state |-> [s EXCEPT !.running = FALSE], ret |-> TRUE]
    ELSE CASE key_event.code = "Tab" ->
                [state |-> [s EXCEPT !.views = Views_next(s.views)], ret |-> TRUE]
           [] key_event.code = "BackTab" ->
                [state |-> [s EXCEPT !.views = Views_prev(s.views)], ret |-> TRUE]
           [] key_event.code = "1" ->
                [state |-> [s EXCEPT !.views = Views_go_to(s.views, "Overview")],
                 ret |-> TRUE]
           [] key_event.code = "2" ->
                [state |-> [s EXCEPT !.views = Views_go_to(s.views, "CpuDetailed")],
                 ret |-> TRUE]
           [] key_event.code = "3" ->
                [state |-> [s EXCEPT !.views = Views_go_to(s.views, "MemoryDetailed")],
                 ret |-> TRUE]
           [] key_event.code = "4" /\ GpuFeature(f) ->
                [state |-> [s EXCEPT !.views = Views_go_to(s.views, "GpuDetailed")],
                 ret |-> TRUE]
           [] key_event.code \in {"?", "h"} ->
                [state |-> [s EXCEPT !.views = Views_go_to(s.views, "Help")],
                 ret |-> TRUE]
           [] key_event.code = "p" ->
                [state |-> toggle_automatic_refresh(s), ret |-> TRUE]
           [] key_event.code = "r" ->
                [state |-> mark_updated(s, t), ret |-> TRUE]
           [] OTHER -> [state |-> s, ret |-> FALSE]

----------------------------------------------------------------------------
(* gpu.rs: the NVML backend's answers *)

Ok(v) == [ok |-> TRUE, v |-> v]
Err(v) == [ok |-> FALSE, v |-> v]

\* what NVML answers about one device index: device_by_index, then name,
\* utilization_rates().gpu, memory_info() as <<total, used>> in bytes, and
\* temperature(Gpu)
HealthyDevice ==
    [device |-> Ok(0), name |-> Ok("Test"), util |-> Ok(42),
     mem |-> Ok(<<1024 * MB, 512 * MB>>), temp |-> Ok(55)]

LostDevice ==
    [device |-> Err(0), name |-> Err(""), util |-> Err(0),
     mem |-> Err(<<0, 0>>), temp |-> Err(0)]

MuteDevice ==
    [device |-> Ok(0), name |-> Err(""), util |-> Err(0),
     mem |-> Err(<<0, 0>>), temp |-> Err(0)]

\* a device that device_by_index returns and that fails exactly one call
NoNameDevice == [HealthyDevice EXCEPT !.name = Err("")]

NoUtilDevice == [HealthyDevice EXCEPT !.util = Err(0)]

NoMemDevice == [HealthyDevice EXCEPT !.mem = Err(<<0, 0>>)]

NoTempDevice == [HealthyDevice EXCEPT !.temp = Err(0)]

DeviceReplies == {HealthyDevice, LostDevice, MuteDevice}

\* one answer to a whole probe: device_count() and one answer per index
Replies ==
    {[count |-> Err(0), devs |-> <<>>]}
    \cup UNION {{[count |-> Ok(n), devs |-> d] : d \in [1..n -> DeviceReplies]}
                : n \in 0..MaxDevices}

\* the answers to one probe in which any single call may fail
ProbeDeviceReplies ==
    DeviceReplies \cup {NoNameDevice, NoUtilDevice, NoMemDevice, NoTempDevice}

ProbeReplies ==
    {[count |-> Err(0), devs |-> <<>>]}
    \cup UNION {{[count |-> Ok(n), devs |-> d] :
                    d \in [1..n -> ProbeDeviceReplies]}
                : n \in 0..MaxDevices}

\* one device that answers every call
OneHealthyDevice == [count |-> Ok(1), devs |-> <<HealthyDevice>>]

----------------------------------------------------------------------------
(* gpu.rs: GpuMonitor.  utilization is in percent, memory_usage in         *)
(* thousandths of a percent, total_memory and used_memory in MB.           *)

\* the GpuInfo pushed for a device that device_by_index returned
NvidiaGpuInfo(r) ==
    LET total == (r.mem.v[1] \div 1024) \div 1024
        used  == (r.mem.v[2] \div 1024) \div 1024
        pct   == IF total > 0 THEN (used * 100000) \div total ELSE 0
    IN  [name         |-> IF r.name.ok THEN r.name.v ELSE "Unknown NVIDIA GPU",
         utilization  |-> IF r.util.ok THEN r.util.v ELSE 0,
         temperature  |-> IF r.temp.ok THEN r.temp.v ELSE 0,
         total_memory |-> IF r.mem.ok THEN total ELSE 0,
         used_memory  |-> IF r.mem.ok THEN used ELSE 0,
         memory_usage |-> IF r.mem.ok THEN pct ELSE 0,
         vendor       |-> "Nvidia",
         is_low_power |-> FALSE,
         is_headless  |-> FALSE]

\* mutant of PushDevices: the first device_by_index failure ends the probe
RECURSIVE PushDevices_StopAtFailure(_, _)
PushDevices_StopAtFailure(devs, i) ==
    IF i > Len(devs) THEN <<>>
    ELSE IF devs[i].device.ok
         THEN <<NvidiaGpuInfo(devs[i])>> \o PushDevices_StopAtFailure(devs, i + 1)
         ELSE <<>>

\* the loop over 0..count: a device that device_by_index refuses is reported
\* on stderr and left out
RECURSIVE PushDevices(_, _)
PushDevices(devs, i) ==
    IF i > Len(devs) THEN <<>>
    ELSE (IF devs[i].device.ok THEN <<NvidiaGpuInfo(devs[i])>> ELSE <<>>)
         \o PushDevices(devs, i + 1)

\* apple_devices is None: it is set only on macOS with a Metal device
refresh_gpu_info(m, f, reply) ==
    IF "nvidia-gpu" \in f /\ m.nvml /\ reply.count.ok
    THEN PushDevices(reply.devs, 1)
    ELSE <<>>

\* nvml_ok: whether Nvml::init() succeeded
GpuMonitor_new(f, t, nvml_ok, reply) ==
    LET m == [last_refresh   |-> t - ForceInitialRefresh,
              cache_duration |-> CacheDuration,
              cached_info    |-> <<>>,
              nvml           |-> ("nvidia-gpu" \in f) /\ nvml_ok]
    IN  [m EXCEPT !.cached_info = refresh_gpu_info(m, f, reply)]

has_gpus(m) == m.cached_info # <<>>

device_count(m) == Len(m.cached_info)

\* the value returned, and whether refresh_gpu_info was called; the monitor
\* is borrowed immutably and stays as it is
get_gpu_info(m, f, t, reply) ==
    IF t - m.last_refresh < m.cache_duration /\ m.cached_info # <<>>
    THEN [ret |-> m.cached_info, probed |-> FALSE]
    ELSE [ret |-> refresh_gpu_info(m, f, reply), probed |-> TRUE]

----------------------------------------------------------------------------
(* widget.rs: BarChart.  An f32 is a record: a finite value of x eighths   *)
(* (every such value is an f32 exactly; 100.0 is F32(800)), an infinity    *)
(* with its sign in x, or NaN.                                             *)

F32(x) == [kind |-> "finite", x |-> x]

PosInf == [kind |-> "inf", x |-> 1]

NegInf == [kind |-> "inf", x |-> -1]

NaN == [kind |-> "nan", x |-> 0]

\* a < b on f32: false as soon as one side is NaN
f32_lt(a, b) ==
    IF a.kind = "nan" \/ b.kind = "nan" THEN FALSE
    ELSE IF a.kind = "inf" THEN a.x < 0 /\ b # a
    ELSE IF b.kind = "inf" THEN b.x > 0
    ELSE a.x < b.x

\* f32::clamp(self, min, max): min when self < min, max when self > max,
\* else self; both comparisons are false for NaN
f32_clamp(v, min, max) ==
    IF f32_lt(v, min) THEN min
    ELSE IF f32_lt(max, v) THEN max
    ELSE v

usize_max(a, b) == IF a >= b THEN a ELSE b

usize_min(a, b) == IF a <= b THEN a ELSE b

\* mutant of BarChart_new: the arguments are stored as they come
BarChart_new_Unclamped(title, value, width) ==
    [title |-> title, value |-> value, width |-> width]

BarChart_new(title, value, width) ==
    LET safe_width == usize_min(usize_max(width, 10), 200)
    IN  [title |-> title,
         value |-> f32_clamp(value, F32(0), F32(800)),
         width |-> safe_width]

\* mutant of get_color: 80 is already red and 50 already yellow
get_color_Inclusive(bar) ==
    IF f32_lt(F32(639), bar.value) THEN "Red"
    ELSE IF f32_lt(F32(399), bar.value) THEN "Yellow"
    ELSE "Green"

\* BarChart::get_color: self.value > 80.0, else self.value > 50.0
get_color(bar) ==
    IF f32_lt(F32(640), bar.value) THEN "Red"
    ELSE IF f32_lt(F32(400), bar.value) THEN "Yellow"
    ELSE "Green"

\* f32 arithmetic, 24 significant bits, round to nearest, ties to even.
\* n more bits of the binary quotient r / d, for r < d, appended to m
RECURSIVE QuotientBits(_, _, _, _)
QuotientBits(r, d, m, n) ==
    IF n = 0 THEN [m |-> m, r |-> r]
    ELSE LET b == IF 2 * r >= d THEN 1 ELSE 0
         IN  QuotientBits(2 * r - b * d, d, 2 * m + b, n - 1)

\* the number of doublings that bring r, 0 < r < d, to d or above
RECURSIVE Doublings(_, _)
Doublings(r, d) == IF r >= d THEN 0 ELSE 1 + Doublings(2 * r, d)

RECURSIVE BitLen(_)
BitLen(n) == IF n = 0 THEN 0 ELSE 1 + BitLen(n \div 2)

\* a / d in f32 for 0 < a < d: the value m * 2^(-e) with m of 24 bits
f32_div(a, d) ==
    LET p == Doublings(a, d)
        q == QuotientBits(a * 2^(p - 1), d, 0, 24)
        up == \/ 2 * q.r > d
              \/ 2 * q.r = d /\ q.m % 2 = 1
    IN  [m |-> IF up THEN q.m + 1 ELSE q.m, e |-> p + 23]

\* q * w in f32 for a small integer w: the 24 leading bits of q.m * w,
\* the product held as A * 2^12 + B
f32_mul(q, w) ==
    LET hi == q.m \div 4096
        lo == q.m % 4096
        A == hi * w + ((lo * w) \div 4096)
        B == (lo * w) % 4096
        len == BitLen(A) + 12
        s == IF len > 24 THEN len - 24 ELSE 0
        kept == A * 2^(12 - s) + (B \div 2^s)
        rem == B % 2^s
        up == /\ s > 0
              /\ \/ 2 * rem > 2^s
                 \/ 2 * rem = 2^s /\ kept % 2 = 1
    IN  [m |-> IF up THEN kept + 1 ELSE kept, e |-> q.e - s]

\* f32::round (half away from zero) then `as usize`, for p = m * 2^(-e) >= 0
f32_round(p) ==
    IF p.e >= 26 THEN 0
    ELSE LET D == 2^p.e
         IN  (p.m \div D) + (IF 2 * (p.m % D) >= D THEN 1 ELSE 0)

\* ((self.value / 100.0) * self.width as f32).round() as usize; NaN casts
\* to 0
filled_width(bar) ==
    IF bar.value.kind = "nan" \/ bar.value.x <= 0 THEN 0
    ELSE IF bar.value.x >= 800 THEN bar.width
    ELSE f32_round(f32_mul(f32_div(bar.value.x, 800), bar.width))

\* self.width.saturating_sub(filled_width)
saturating_sub(a, b) == IF a >= b THEN a - b ELSE 0

\* the number of characters of format!("{:.1}%", self.value): the value in
\* tenths, rounded half to even, then its digits, the point and the sign
RECURSIVE Digits(_)
Digits(n) == IF n < 10 THEN 1 ELSE 1 + Digits(n \div 10)

format_value_len(bar) ==
    IF bar.value.kind = "nan" THEN 4
    ELSE LET x == bar.value.x
             t == (10 * x) \div 8
             r == (10 * x) % 8
             tenths == IF r > 4 \/ (r = 4 /\ t % 2 = 1) THEN t + 1 ELSE t
         IN  Digits(tenths \div 10) + 3

\* format!("{:<width$}", ...) and format!("{:>6}", ...): pad, never cut
padded(len, width) == IF len < width THEN width ELSE len

\* Widget::draw for BarChart: what is written to stdout, as the columns of
\* each field and the colour of each coloured run
draw(bar) ==
    LET filled == filled_width(bar)
        empty  == saturating_sub(bar.width, filled)
    IN  [drawn        |-> TRUE,
         title_cols   |-> padded(Len(bar.title), 15),
         filled_cells |-> filled,
         filled_color |-> IF filled > 0 THEN get_color(bar) ELSE "none",
         empty_cells  |-> empty,
         value_cols   |-> 1 + padded(format_value_len(bar), 6),
         value_color  |-> get_color(bar)]

NoLine ==
    [drawn |-> FALSE, title_cols |-> 0, filled_cells |-> 0,
     filled_color |-> "none", empty_cells |-> 0, value_cols |-> 0,
     value_color |-> "none"]

\* the arguments the callers may pass
Titles == {"Memory", "GPU Utilization", "GPU Utilization (est.)"}

Values ==
    {F32(x) : x \in (0 - ValueSlack)..ValueSlack}
    \cup {F32(x) : x \in (800 - ValueSlack)..(800 + ValueSlack)}
    \cup {F32(x) : x \in (400 - ValueSlack)..(400 + ValueSlack)}
    \cup {F32(x) : x \in (640 - ValueSlack)..(640 + ValueSlack)}
    \cup {F32(100), F32(424), F32(79), F32(80), PosInf, NegInf, NaN}

Widths ==
    (0..(10 + WidthSlack)) \cup ((200 - WidthSlack)..(200 + WidthSlack))
    \cup {40, 50}

NoChart ==
    [built |-> FALSE,
     args  |-> [title |-> "", value |-> F32(0), width |-> 0],
     bar   |-> [title |-> "", value |-> F32(0), width |-> 0],
     line  |-> NoLine]

----------------------------------------------------------------------------
(* main.rs: SystemMonitor::get_memory_info.  A reading is what sysinfo     *)
(* reports, total_memory() and used_memory(); the percentage is an f32     *)
(* whose finite values are kept in thousandths of a percent.               *)

HostMemory ==
    {[total |-> 0, used |-> 0], [total |-> 1024 * MB, used |-> 512 * MB]}

\* (used as f32 / total as f32) * 100.0: 0.0 / 0.0 is NaN, x / 0.0 is
\* infinite
f32_percent(used, total) ==
    IF total = 0 THEN (IF used = 0 THEN NaN ELSE PosInf)
    ELSE [kind |-> "finite", x |-> (used * 100000) \div total]

get_memory_info(reading) ==
    LET total_mem == (reading.total \div 1024) \div 1024
        used_mem  == (reading.used \div 1024) \div 1024
    IN  [total_mem     |-> total_mem,
         used_mem      |-> used_mem,
         mem_usage_pct |-> f32_percent(used_mem, total_mem)]

NoFrame ==
    [reads  |-> {},
     drawn  |-> <<>>,
     memory |-> [total_mem |-> 0, used_mem |-> 0, mem_usage_pct |-> F32(0)]]

----------------------------------------------------------------------------
(* gpu.rs and mac_gpu.rs: the synthesized utilization of an Apple GPU.     *)
(* The wall clock is a record [seconds, sin]: now_in_seconds() and the     *)
(* sine of (seconds as f32 / 5.0) in thousandths.  A load is in            *)
(* thousandths, a utilization in thousandths of a percent.                 *)

\* a sine lies in [-1, 1]
SinValues == {-1000, -500, 0, 500, 1000}

Walls == {[seconds |-> s, sin |-> x] : s \in 0..MaxSecs, x \in SinValues}

clamp(v, min, max) == IF v < min THEN min ELSE IF v > max THEN max ELSE v

\* gpu.rs GpuMonitor::get_system_load and mac_gpu.rs get_system_load:
\* ((seconds % 20) as f32 / 20.0 + sin * 0.2).clamp(0.0, 1.0)
get_system_load(w) ==
    clamp((w.seconds % 20) * 50 + (w.sin * 200) \div 1000, 0, 1000)

\* mutant of calculate_apple_gpu_utilization: headless is tested first
calculate_apple_gpu_utilization_HeadlessFirst(is_low_power, is_headless, w) ==
    LET system_load == get_system_load(w)
        base_rate == IF is_headless THEN 10000 + system_load * 60
                     ELSE IF is_low_power THEN 35000 + system_load * 40
                     ELSE 20000 + system_load * 50
        time_factor == (w.seconds % 10) * 3000
        utilization == base_rate + time_factor
    IN  IF utilization > 95000 THEN 95000
        ELSE IF utilization < 5000 THEN 5000
        ELSE utilization

\* gpu.rs GpuMonitor::calculate_apple_gpu_utilization
calculate_apple_gpu_utilization(is_low_power, is_headless, w) ==
    LET system_load == get_system_load(w)
        base_rate == IF is_low_power THEN 35000 + system_load * 40
                     ELSE IF is_headless THEN 10000 + system_load * 60
                     ELSE 20000 + system_load * 50
        time_factor == (w.seconds % 10) * 3000
        utilization == base_rate + time_factor
    IN  IF utilization > 95000 THEN 95000
        ELSE IF utilization < 5000 THEN 5000
        ELSE utilization

\* a Metal device: what is_low_power() and is_headless() answer
MetalDevices == [is_low_power : BOOLEAN, is_headless : BOOLEAN]

\* mutant of push_history: a full history drops its newest entry
push_history_DropNewest(history, entry) ==
    Append(IF Len(history) >= 10 THEN SubSeq(history, 1, Len(history) - 1)
           ELSE history, entry)

\* if history.len() >= 10 { history.pop_front(); } history.push_back(entry)
push_history(history, entry) ==
    Append(IF Len(history) >= 10 THEN Tail(history) ELSE history, entry)

\* mac_gpu.rs MacGpuMonitor::calculate_dynamic_utilization: the utilization
\* and the history with (Instant::now(), utilization as u64) pushed
calculate_dynamic_utilization(device, history, w, t) ==
    LET system_load == get_system_load(w)
        base_rate == IF device.is_low_power THEN 35000 + system_load * 40
                     ELSE IF device.is_headless THEN 10000 + system_load * 60
                     ELSE 20000 + system_load * 50
        time_factor == (w.seconds % 10) * 3000
        sum == base_rate + time_factor
        utilization == IF sum > 95000 THEN 95000
                       ELSE IF sum < 5000 THEN 5000
                       ELSE sum
    IN  [utilization |-> utilization,
         history     |-> push_history(history, <<t, utilization \div 1000>>)]

NoSynth ==
    [by |-> "none", is_low_power |-> FALSE, is_headless |-> FALSE,
     wall |-> [seconds |-> 0, sin |-> 0], load |-> 0, utilization |-> 0]

\* no MacGpuMonitor: the build has no apple-gpu feature, or no Metal device
NoMac ==
    [devices |-> <<>>, performance_history |-> <<>>, last_sample_time |-> 0,
     locks |-> [last_sample_time |-> 0, performance_history |-> 0]]


\* the threads that may call into the monitor
Callers == {1, 2}

\* before: the histories as the caller found them when it locked them
Idle ==
    [pc |-> "idle", now |-> 0, elapsed |-> 0, i |-> 0, gpu_info |-> <<>>,
     before |-> <<>>]

\* a Mutex is the id of the caller that holds its guard, 0 when free
Unlocked == [last_sample_time |-> 0, performance_history |-> 0]

lock(locks, mutex, t) == [locks EXCEPT ![mutex] = t]

\* mutant of drop_guard: the guard lives to the end of the closure
drop_guard_Late(locks, mutex) ==
    IF mutex = "last_sample_time" THEN locks
    ELSE [m \in DOMAIN locks |-> 0]

\* the guard is dropped: drop(last_time_guard), or the end of its scope
drop_guard(locks, mutex) == [locks EXCEPT ![mutex] = 0]

\* MacGpuMonitor::new() with the devices Device::all() returned, not empty
MacGpuMonitor_new(devices, t) ==
    [devices |-> devices,
     performance_history |-> [i \in 1..Len(devices) |-> <<>>],
     last_sample_time |-> t,
     locks |-> Unlocked]

\* an integrated GPU and a discrete one
MacDeviceLists ==
    {<<[is_low_power |-> TRUE, is_headless |-> FALSE],
       [is_low_power |-> FALSE, is_headless |-> FALSE]>>}

\* Instant::duration_since: zero when the earlier instant is the later one
duration_since(t, earlier) == IF t >= earlier THEN t - earlier ELSE 0


----------------------------------------------------------------------------
(* ui.rs: the coordinate arithmetic of the painters.  A subtraction is a   *)
(* record [v, underflow]: v is the wrapped result of a build without       *)
(* overflow checks; a build with them panics at the first underflow.       *)

\* ViewType::name
name(view_type) ==
    CASE view_type = "Overview" -> "Overview"
      [] view_type = "CpuDetailed" -> "CPU Details"
      [] view_type = "MemoryDetailed" -> "Memory Details"
      [] view_type = "GpuDetailed" -> "GPU Details"
      [] view_type = "Help" -> "Help"

\* what crossterm::terminal::size() answers: Ok((columns, rows)), or Err
TerminalSizes ==
    {Ok(<<w, h>>) : w \in {0, 1, 9, 17, 80}, h \in {0, 2, 24}}
    \cup {Err(<<0, 0>>)}

\* match size() { Ok((w, h)) => (w, h), Err(_) => (80, 24) }
term_size(answer) == IF answer.ok THEN answer.v ELSE <<80, 24>>

u16_sub(a, b) == [v |-> (a - b) % 65536, underflow |-> a < b]

\* a usize subtraction whose result is halved and cut to u16
usize_sub_half_u16(a, b) ==
    [v |-> ((a - b) \div 2) % 65536, underflow |-> a < b]

NoSub == [v |-> 0, underflow |-> FALSE]

\* draw_content_box(stdout, title, start_row, height): term_width - 2 for
\* both borders, term_width - 1 for each row of the sides
draw_content_box(answer, start_row, height) ==
    LET term_width == term_size(answer)[1]
        border == u16_sub(term_width, 2)
        side == IF start_row + 1 < height THEN u16_sub(term_width, 1)
                ELSE NoSub
    IN  [border_cells |-> border.v,
         side_col     |-> side.v,
         underflow    |-> border.underflow \/ side.underflow]

\* draw_ui_frame(stdout, state)
draw_ui_frame(answer, s) ==
    LET term_width == term_size(answer)[1]
        term_height == term_size(answer)[2]
        view_title_len == Len(name(s.views.current)) + 2
        center_pos == usize_sub_half_u16(term_width, view_title_len)
        status_len == 8
        status_left == u16_sub(term_width, status_len)
        status_col == u16_sub(status_left.v, 2)
        help_row == IF s.show_help_line THEN u16_sub(term_height, 1)
                    ELSE NoSub
    IN  [center_pos |-> center_pos.v,
         status_col |-> status_col.v,
         help_row   |-> help_row.v,
         underflow  |-> \/ center_pos.underflow
                        \/ status_left.underflow
                        \/ status_col.underflow
                        \/ help_row.underflow]

\* draw_memory_view(stdout, total_mem, used_mem, mem_usage): the box of
\* term_height as u16 - 3 rows, and the free memory total_mem - used_mem
draw_memory_view(answer, memory) ==
    LET term_height == term_size(answer)[2]
        box_height == u16_sub(term_height, 3)
        box == draw_content_box(answer, 2, box_height.v)
    IN  [box_height |-> box_height.v,
         box        |-> box,
         free_mem   |-> IF memory.total_mem >= memory.used_mem
                        THEN memory.total_mem - memory.used_mem
                        ELSE 0,
         underflow  |-> \/ box_height.underflow
                        \/ box.underflow
                        \/ memory.total_mem < memory.used_mem]

NoRender ==
    [painter |-> "none", size |-> Err(<<0, 0>>), underflow |-> FALSE,
     panicked |-> FALSE]

\* the keys that change what draw_ui_frame paints
RenderKeys == {Key("Tab"), Key("p"), Key("h")}

----------------------------------------------------------------------------
(* The initial state: main.rs SystemMonitor::new, ui.rs UiState::new and   *)
(* gpu.rs GpuMonitor::new at time 0.                                       *)

Features == SUBSET {"nvidia-gpu", "apple-gpu"}

NoCall == [time |-> -1, info |-> <<>>]

Op(op, key, ret, gpu) == [op |-> op, key |-> key, ret |-> ret, gpu |-> gpu]

\* the terminal as the shell hands it to the process
CookedTerminal ==
    [raw_mode |-> FALSE, alternate_screen |-> FALSE, cursor_visible |-> TRUE]

\* answers: the answers the backend can give for the whole run
InitAt(answers, wallclocks, macs) ==
    /\ features \in Features
    /\ now = 0
    /\ state = UiState_new(features, 0)
    /\ pc = "refresh"
    /\ refreshes = 1
    /\ frames = 0
    /\ hw = answers
    /\ \E nvml_ok \in BOOLEAN, reply \in answers :
          monitor = GpuMonitor_new(features, 0, nvml_ok, reply)
    /\ last_probe = [time |-> 0, info |-> monitor.cached_info]
    /\ gpu_ret = NoCall
    /\ forced = FALSE
    /\ terminal = CookedTerminal
    /\ frame = NoFrame
    /\ chart = NoChart
    /\ wall \in wallclocks
    /\ mac \in macs
    /\ callers = [t \in Callers |-> Idle]
    /\ synth = NoSynth
    /\ render = NoRender
    /\ last = Op("new", NoKey, FALSE, "none")

InitWith(answers) == InitAt(answers, {[seconds |-> 0, sin |-> 0]}, {NoMac})

\* one device that answers every probe alike, when NVML initialises
Init == InitWith({OneHealthyDevice})

\* devices and metrics come and go between probes
InitGpu == InitWith(Replies)

\* one backend whose answers stay the same for the whole run
InitProbe == \E reply \in ProbeReplies : InitWith({reply})

\* a build with the apple-gpu feature, started at any second
InitApple ==
    /\ InitAt({OneHealthyDevice}, Walls, {NoMac})
    /\ "apple-gpu" \in features

\* a build with the apple-gpu feature alone on a machine with Metal devices
InitMac ==
    /\ InitAt({OneHealthyDevice}, {[seconds |-> 19, sin |-> 0]},
              {MacGpuMonitor_new(d, 0) : d \in MacDeviceLists})
    /\ features = {"apple-gpu"}

----------------------------------------------------------------------------
(* Operations *)

\* time passes
Tick ==
    /\ \E d \in Delays : now + d <= MaxTime /\ now' = now + d
    /\ last' = Op("tick", NoKey, FALSE, "none")
    /\ UNCHANGED <<wall, mac, callers, synth, render,
                   features, state, pc, refreshes, frames, monitor, hw,
                   last_probe, gpu_ret, forced,
                   chart, terminal, frame>>

\* ui.rs handle_key_event(key_event, &mut state)
HandleKey(k) ==
    LET r == handle_key_event(features, k, state, now) IN
    /\ state' = r.state
    /\ last' = Op("key", k, r.ret, "none")
    /\ forced' = IF IsQuitKey(k) THEN forced
                 ELSE IF k.code = "r" THEN TRUE
                 ELSE IF k.code = "p" THEN FALSE
                 ELSE forced
    /\ UNCHANGED <<wall, mac, callers, synth, render,
                   features, now, pc, refreshes, frames, monitor, hw,
                   last_probe, gpu_ret,
                   chart, terminal, frame>>

\* ui.rs UiState::should_update(&self, refresh_rate), called by any holder
\* of the state with the program's refresh rate
CallShouldUpdate ==
    /\ last' = Op("should_update", NoKey,
                  should_update(state, RefreshRate, now), "none")
    /\ UNCHANGED <<wall, mac, callers, synth, render,
                   features, state, now, pc, refreshes, frames, monitor, hw,
                   last_probe, gpu_ret, forced,
                   chart, terminal, frame>>

\* the effect of one get_gpu_info() call on the record of probes and returns
GpuCall(g) ==
    /\ gpu_ret' = [time |-> now, info |-> g.ret]
    /\ last_probe' = IF g.probed THEN [time |-> now, info |-> g.ret]
                     ELSE last_probe

\* gpu.rs GpuMonitor::get_gpu_info(&self), called by any holder of the monitor
GetGpuInfo ==
    /\ \E reply \in hw :
          LET g == get_gpu_info(monitor, features, now, reply) IN
          /\ GpuCall(g)
          /\ last' = Op("get_gpu_info", NoKey, FALSE,
                        IF g.probed THEN "probe" ELSE "hit")
    /\ UNCHANGED <<wall, mac, callers, synth, render,
                   features, state, now, pc, refreshes, frames, monitor, hw,
                   forced,
                   chart, terminal, frame>>

\* widget.rs BarChart::new(title, value, width), called by any renderer
NewBarChart ==
    /\ ~chart.built
    /\ \E title \in Titles, value \in Values, width \in Widths :
          chart' = [built |-> TRUE,
                    args  |-> [title |-> title, value |-> value,
                               width |-> width],
                    bar   |-> BarChart_new(title, value, width),
                    line  |-> NoLine]
    /\ last' = Op("BarChart::new", NoKey, FALSE, "none")
    /\ UNCHANGED <<wall, mac, callers, synth, render,
                   features, state, now, pc, refreshes, frames, monitor, hw,
                   last_probe, gpu_ret, forced, terminal, frame>>

\* widget.rs <BarChart as Widget>::draw(&self, stdout)
DrawBarChart ==
    /\ chart.built
    /\ ~chart.line.drawn
    /\ chart' = [chart EXCEPT !.line = draw(chart.bar)]
    /\ last' = Op("draw_chart", NoKey, FALSE, "none")
    /\ UNCHANGED <<wall, mac, callers, synth, render,
                   features, state, now, pc, refreshes, frames, monitor, hw,
                   last_probe, gpu_ret, forced, terminal, frame>>

\* the chart is a local of its renderer and ends with its block
DropBarChart ==
    /\ chart.line.drawn
    /\ chart' = NoChart
    /\ last' = Op("drop_chart", NoKey, FALSE, "none")
    /\ UNCHANGED <<wall, mac, callers, synth, render,
                   features, state, now, pc, refreshes, frames, monitor, hw,
                   last_probe, gpu_ret, forced, terminal, frame>>

\* gpu.rs calculate_apple_gpu_utilization(is_low_power, is_headless), called
\* by refresh_gpu_info for each Apple device
CalculateAppleGpuUtilization ==
    /\ "apple-gpu" \in features
    /\ \E device \in MetalDevices :
          synth' = [by |-> "gpu.rs",
                    is_low_power |-> device.is_low_power,
                    is_headless  |-> device.is_headless,
                    wall |-> wall,
                    load |-> get_system_load(wall),
                    utilization |->
                        calculate_apple_gpu_utilization(
                            device.is_low_power, device.is_headless, wall)]
    /\ last' = Op("calculate_apple_gpu_utilization", NoKey, FALSE, "none")
    /\ UNCHANGED <<wall, mac, callers, render,
                   features, state, now, pc, refreshes, frames, monitor, hw,
                   last_probe, gpu_ret, forced, terminal, frame, chart>>

\* mac_gpu.rs calculate_dynamic_utilization(device, i, history, elapsed) on
\* a device whose history is still empty
CalculateDynamicUtilization ==
    /\ "apple-gpu" \in features
    /\ \E device \in MetalDevices :
          synth' = [by |-> "mac_gpu.rs",
                    is_low_power |-> device.is_low_power,
                    is_headless  |-> device.is_headless,
                    wall |-> wall,
                    load |-> get_system_load(wall),
                    utilization |->
                        calculate_dynamic_utilization(
                            device, <<>>, wall, now).utilization]
    /\ last' = Op("calculate_dynamic_utilization", NoKey, FALSE, "none")
    /\ UNCHANGED <<wall, mac, callers, render,
                   features, state, now, pc, refreshes, frames, monitor, hw,
                   last_probe, gpu_ret, forced, terminal, frame, chart>>

\* ui.rs draw_ui_frame(stdout, &state), in a build with or without overflow
\* checks
DrawUiFrame ==
    /\ \E answer \in TerminalSizes, overflow_checks \in BOOLEAN :
          LET f == draw_ui_frame(answer, state) IN
          render' = [painter   |-> "draw_ui_frame",
                     size      |-> answer,
                     underflow |-> f.underflow,
                     panicked  |-> overflow_checks /\ f.underflow]
    /\ last' = Op("draw_ui_frame", NoKey, FALSE, "none")
    /\ UNCHANGED <<wall, mac, callers, synth,
                   features, state, now, pc, refreshes, frames, monitor, hw,
                   last_probe, gpu_ret, forced, terminal, frame, chart>>

\* ui.rs draw_memory_view(stdout, total_mem, used_mem, mem_usage) with what
\* get_memory_info returns
DrawMemoryView ==
    /\ \E answer \in TerminalSizes, overflow_checks \in BOOLEAN,
          reading \in HostMemory :
          LET v == draw_memory_view(answer, get_memory_info(reading)) IN
          render' = [painter   |-> "draw_memory_view",
                     size      |-> answer,
                     underflow |-> v.underflow,
                     panicked  |-> overflow_checks /\ v.underflow]
    /\ last' = Op("draw_memory_view", NoKey, FALSE, "none")
    /\ UNCHANGED <<wall, mac, callers, synth,
                   features, state, now, pc, refreshes, frames, monitor, hw,
                   last_probe, gpu_ret, forced, terminal, frame, chart>>

\* mac_gpu.rs get_gpu_info, lines 71-72: the result vector and
\* Instant::now()
MacCall(t) ==
    /\ callers[t].pc = "idle"
    /\ callers' = [callers EXCEPT ![t] =
                       [Idle EXCEPT !.pc = "lock_time", !.now = now]]
    /\ last' = Op("mac_call", NoKey, FALSE, "none")
    /\ UNCHANGED <<wall, mac, synth, render,
                   features, state, now, pc, refreshes, frames, monitor, hw,
                   last_probe, gpu_ret, forced, terminal, frame, chart>>

\* line 75: self.last_sample_time.lock().unwrap() waits for the mutex
MacLockTime(t) ==
    /\ callers[t].pc = "lock_time"
    /\ mac.locks.last_sample_time = 0
    /\ mac' = [mac EXCEPT !.locks = lock(mac.locks, "last_sample_time", t)]
    /\ callers' = [callers EXCEPT ![t].pc = "sample"]
    /\ last' = Op("mac_lock_time", NoKey, FALSE, "none")
    /\ UNCHANGED <<wall, synth, render,
                   features, state, now, pc, refreshes, frames, monitor, hw,
                   last_probe, gpu_ret, forced, terminal, frame, chart>>

\* lines 76-81: elapsed, *last_time_guard = now, drop(last_time_guard)
MacSample(t) ==
    /\ callers[t].pc = "sample"
    /\ mac' = [mac EXCEPT
                  !.last_sample_time = callers[t].now,
                  !.locks = drop_guard(mac.locks, "last_sample_time")]
    /\ callers' = [callers EXCEPT
                      ![t].elapsed =
                          duration_since(callers[t].now, mac.last_sample_time),
                      ![t].pc = "lock_history"]
    /\ last' = Op("mac_sample", NoKey, FALSE, "none")
    /\ UNCHANGED <<wall, synth, render,
                   features, state, now, pc, refreshes, frames, monitor, hw,
                   last_probe, gpu_ret, forced, terminal, frame, chart>>

\* line 84: self.performance_history.lock().unwrap() waits for the mutex
MacLockHistory(t) ==
    /\ callers[t].pc = "lock_history"
    /\ mac.locks.performance_history = 0
    /\ mac' = [mac EXCEPT !.locks = lock(mac.locks, "performance_history", t)]
    /\ callers' = [callers EXCEPT
                      ![t].pc = "devices",
                      ![t].i = 1,
                      ![t].before = mac.performance_history]
    /\ last' = Op("mac_lock_history", NoKey, FALSE, "none")
    /\ UNCHANGED <<wall, synth, render,
                   features, state, now, pc, refreshes, frames, monitor, hw,
                   last_probe, gpu_ret, forced, terminal, frame, chart>>

\* lines 86-102: one turn of the loop over self.devices
MacDevice(t) ==
    LET i == callers[t].i
        r == calculate_dynamic_utilization(
                 mac.devices[i], mac.performance_history[i], wall, now)
    IN
    /\ callers[t].pc = "devices"
    /\ i <= Len(mac.devices)
    /\ mac' = [mac EXCEPT !.performance_history[i] = r.history]
    /\ callers' = [callers EXCEPT
                      ![t].gpu_info = Append(@, r.utilization),
                      ![t].i = i + 1,
                      ![t].pc = IF i = Len(mac.devices) THEN "return"
                                ELSE "devices"]
    /\ last' = Op("mac_device", NoKey, FALSE, "none")
    /\ UNCHANGED <<wall, synth, render,
                   features, state, now, pc, refreshes, frames, monitor, hw,
                   last_probe, gpu_ret, forced, terminal, frame, chart>>

\* lines 109-111: gpu_info is returned and the history guard ends with the
\* closure
MacReturn(t) ==
    /\ callers[t].pc = "return"
    /\ mac' = [mac EXCEPT
                  !.locks = drop_guard(mac.locks, "performance_history")]
    /\ callers' = [callers EXCEPT ![t].pc = "idle"]
    /\ last' = Op("mac_return", NoKey, FALSE, "none")
    /\ UNCHANGED <<wall, synth, render,
                   features, state, now, pc, refreshes, frames, monitor, hw,
                   last_probe, gpu_ret, forced, terminal, frame, chart>>

\* mac_gpu.rs MacGpuMonitor::get_gpu_info(&self), statement by statement
MacGetGpuInfo(t) ==
    \/ MacCall(t)
    \/ MacLockTime(t)
    \/ MacSample(t)
    \/ MacLockHistory(t)
    \/ MacDevice(t)
    \/ MacReturn(t)

\* main.rs display, lines 121-126: self.refresh() and the CPU and memory reads
DisplayRefresh ==
    /\ pc = "refresh"
    /\ refreshes' = refreshes + 1
    /\ forced' = FALSE
    /\ \E reading \in HostMemory :
          frame' = [reads  |-> {"sampler", "cpu", "memory"},
                    drawn  |-> <<>>,
                    memory |-> get_memory_info(reading)]
    /\ pc' = "draw"
    /\ last' = Op("refresh", NoKey, FALSE, "none")
    /\ UNCHANGED <<wall, mac, callers, synth, render,
                   features, state, now, frames, monitor, hw, last_probe,
                   gpu_ret, chart, terminal>>

\* main.rs display, lines 128-168: the screen is cleared and the CPU and the
\* memory sections are written; without the nvidia-gpu feature (and with no
\* MacGpuMonitor) that is the whole frame
DisplayDraw ==
    /\ pc = "draw"
    /\ frame' = [frame EXCEPT !.drawn = <<"cpu", "memory">>]
    /\ IF "nvidia-gpu" \in features
       THEN pc' = "gpu" /\ frames' = frames
       ELSE pc' = "sleep" /\ frames' = frames + 1
    /\ last' = Op("draw", NoKey, FALSE, "none")
    /\ UNCHANGED <<wall, mac, callers, synth, render,
                   features, state, now, refreshes, monitor, hw, last_probe,
                   gpu_ret, forced, chart, terminal>>

\* main.rs display, lines 171-204: get_gpu_info() is read and, when it holds
\* a device, the GPU section is written
DisplayGpu ==
    /\ pc = "gpu"
    /\ \E reply \in hw :
          LET g == get_gpu_info(monitor, features, now, reply) IN
          /\ GpuCall(g)
          /\ frame' = [frame EXCEPT
                          !.reads = frame.reads \cup {"gpu"},
                          !.drawn = IF g.ret # <<>>
                                    THEN Append(frame.drawn, "gpu")
                                    ELSE frame.drawn]
          /\ last' = Op("gpu_section", NoKey, FALSE,
                        IF g.probed THEN "probe" ELSE "hit")
    /\ frames' = frames + 1
    /\ pc' = "sleep"
    /\ UNCHANGED <<wall, mac, callers, synth, render,
                   features, state, now, refreshes, monitor, hw, forced,
                   chart, terminal>>

\* main.rs display: an execute!(...)? or draw(...)? fails and display returns
\* the io::Error, which main returns
DisplayIoError ==
    /\ pc \in {"draw", "gpu"}
    /\ pc' = "exited"
    /\ last' = Op("io_error", NoKey, FALSE, "none")
    /\ UNCHANGED <<wall, mac, callers, synth, render,
                   features, state, now, refreshes, frames, monitor, hw,
                   last_probe, gpu_ret, forced, chart, terminal, frame>>

\* main.rs display, line 247: thread::sleep(self.refresh_rate)
DisplaySleep ==
    /\ pc = "sleep"
    /\ now + RefreshRate <= MaxTime
    /\ now' = now + RefreshRate
    /\ pc' = "refresh"
    /\ last' = Op("sleep", NoKey, FALSE, "none")
    /\ UNCHANGED <<wall, mac, callers, synth, render,
                   features, state, refreshes, frames, monitor, hw,
                   last_probe, gpu_ret, forced, chart, terminal, frame>>

NextGpu ==
    \/ Tick
    \/ GetGpuInfo
    \/ DisplayRefresh
    \/ DisplayDraw
    \/ DisplayGpu
    \/ DisplayIoError
    \/ DisplaySleep

Next ==
    \/ Tick
    \/ \E k \in KeyEvents : HandleKey(k)
    \/ CallShouldUpdate

NextLoop ==
    \/ Tick
    \/ \E k \in LoopKeys : HandleKey(k)
    \/ DisplayRefresh
    \/ DisplayDraw
    \/ DisplayGpu
    \/ DisplayIoError
    \/ DisplaySleep

NextProbe ==
    \/ Tick
    \/ GetGpuInfo

NextWidget ==
    \/ NewBarChart
    \/ DrawBarChart
    \/ DropBarChart

NextApple ==
    \/ CalculateAppleGpuUtilization
    \/ CalculateDynamicUtilization

NextRender ==
    \/ \E k \in RenderKeys : HandleKey(k)
    \/ DrawUiFrame
    \/ DrawMemoryView

NextMac ==
    \/ Tick
    \/ MacGetGpuInfo(1)

NextMacLocks ==
    \/ \E t \in Callers : MacGetGpuInfo(t)

\* the UI state machine under every key
Spec == Init /\ [][Next]_vars

\* the display loop, with the keys that pause, force a refresh and quit
SpecLoop == Init /\ [][NextLoop]_vars

\* the GPU monitor under an unreliable backend

SpecGpu == InitGpu /\ [][NextGpu]_vars

\* the GPU monitor probing a backend in which single calls fail
SpecProbe == InitProbe /\ [][NextProbe]_vars

\* the bar chart widget under every argument
SpecWidget == Init /\ [][NextWidget]_vars

\* the synthesized Apple utilization at every second
SpecApple == InitApple /\ [][NextApple]_vars

\* the painters on a terminal of any size
SpecRender == Init /\ [][NextRender]_vars

\* one caller of MacGpuMonitor::get_gpu_info as time passes
SpecMac == InitMac /\ [][NextMac]_vars

\* concurrent callers of MacGpuMonitor::get_gpu_info
SpecMacLocks == InitMac /\ [][NextMacLocks]_vars

----------------------------------------------------------------------------
(* Claims *)

AllViews == {"Overview", "CpuDetailed", "MemoryDetailed", "GpuDetailed", "Help"}

NoGpuRegistry == <<"Overview", "CpuDetailed", "MemoryDetailed", "Help">>

KeyStep == last'.op = "key"

\* C1: while automatic_refresh is false, and unless 'r' was pressed during the
\* pause, no step of the loop refreshes the Host Sampler.
C1_PauseSemantics ==
    [][(~state.automatic_refresh /\ ~forced) => refreshes' = refreshes]_vars

\* C2: a get_gpu_info() call that follows another one, both less than
\* cache_duration after the last probe, returns what the first returned and
\* probes no backend.
C2_CacheFreshness ==
    [][(/\ last'.gpu # "none"
        /\ gpu_ret # NoCall
        /\ gpu_ret.time - last_probe.time < CacheDuration
        /\ now - last_probe.time < CacheDuration)
       => (gpu_ret'.info = gpu_ret.info /\ last'.gpu = "hit")]_vars

\* C3: after a get_gpu_info() call that probed, cached_info is what the call
\* returned and last_refresh is the time of that probe, so the cache is fresh
\* for cache_duration.
C3_CacheUpdated ==
    last.gpu = "probe" =>
        /\ monitor.cached_info = gpu_ret.info
        /\ monitor.last_refresh = last_probe.time
        /\ (now - last_probe.time < CacheDuration
              => now - monitor.last_refresh < monitor.cache_duration)

\* C4: has_gpus() is true exactly when the most recent probe returned a
\* device, and device_count() is the number of devices of that probe.
C4_CountsFollowProbe ==
    /\ has_gpus(monitor) <=> Len(last_probe.info) >= 1
    /\ device_count(monitor) = Len(last_probe.info)

\* C5: the current view is always a registered view.
C5_CurrentRegistered ==
    \E i \in 1..Len(state.views.available) :
        state.views.available[i] = state.views.current

C5_Witness ==
    /\ last.op = "key"
    /\ last.key = Key("BackTab")
    /\ state.views.current = "Help"

RECURSIVE TimesNext(_, _)
TimesNext(v, n) == IF n = 0 THEN v ELSE TimesNext(Views_next(v), n - 1)

RECURSIVE TimesPrev(_, _)
TimesPrev(v, n) == IF n = 0 THEN v ELSE TimesPrev(Views_prev(v), n - 1)

\* the registered view after (d = 1) or before (d = -1) the current one, cyclically
Neighbour(v, d) ==
    LET n == Len(v.available)
        i == CHOOSE j \in 1..n : v.available[j] = v.current
    IN  v.available[((i - 1 + d + n) % n) + 1]

C6_Function ==
    LET v == state.views
        n == Len(v.available)
    IN  /\ n > 0
        /\ Views_next(v) = [v EXCEPT !.current = Neighbour(v, 1)]
        /\ Views_prev(v) = [v EXCEPT !.current = Neighbour(v, -1)]
        /\ TimesNext(v, n) = v
        /\ TimesPrev(v, n) = v
        /\ (n = 5 =>
              [k \in 1..5 |-> TimesNext([v EXCEPT !.current = "Overview"], k).current]
              = <<"CpuDetailed", "MemoryDetailed", "GpuDetailed", "Help", "Overview">>)

C6_Step ==
    /\ (KeyStep /\ last'.key = Key("Tab"))
          => state' = [state EXCEPT !.views.current = Neighbour(state.views, 1)]
    /\ (KeyStep /\ last'.key = Key("BackTab"))
          => state' = [state EXCEPT !.views.current = Neighbour(state.views, -1)]

\* C6: next moves to the successor in registry order and prev to the
\* predecessor, both cyclically; n times next, or n times prev, is the
\* identity; Tab from Overview in the 5-view registry visits CPU, Memory, GPU,
\* Help and Overview again.
C6_ViewWrap == []C6_Function /\ [][C6_Step]_vars

C6_Witness ==
    /\ last.op = "key"
    /\ last.key = Key("Tab")
    /\ Len(state.views.available) = 5
    /\ state.views.current = "Overview"

C7_Function ==
    \A view_type \in AllViews :
        Views_go_to(state.views, view_type) =
            IF \E i \in 1..Len(state.views.available) :
                  state.views.available[i] = view_type
            THEN [state.views EXCEPT !.current = view_type]
            ELSE state.views

C7_Target(code) ==
    CASE code = "1" -> "Overview"
      [] code = "2" -> "CpuDetailed"
      [] code = "3" -> "MemoryDetailed"
      [] code = "4" -> "GpuDetailed"
      [] OTHER -> "Help"

C7_Step ==
    (KeyStep /\ last'.key \in {Key(c) : c \in {"1", "2", "3", "4", "?", "h"}})
       => state' =
            IF \E i \in 1..Len(state.views.available) :
                  state.views.available[i] = C7_Target(last'.key.code)
            THEN [state EXCEPT !.views.current = C7_Target(last'.key.code)]
            ELSE state

\* C7: go_to(v) changes nothing when v is not registered and makes v the
\* current view when it is; so do the keys that go to a view.
C7_GoTo == []C7_Function /\ [][C7_Step]_vars

C7_Witness ==
    /\ last.op = "key"
    /\ last.key = Key("4")
    /\ ~(\E i \in 1..Len(state.views.available) :
            state.views.available[i] = "GpuDetailed")
    /\ state.views.current = "MemoryDetailed"

C8_Function ==
    /\ (\E i \in 1..Len(state.views.available) :
           state.views.available[i] = "GpuDetailed")
          <=> (features # {})
    /\ features = {} => state.views.available = NoGpuRegistry

C8_Step ==
    (KeyStep /\ last'.key = Key("4"))
       => IF features = {}
          THEN state' = state /\ ~last'.ret
          ELSE state'.views.current = "GpuDetailed" /\ last'.ret

C9_QuitKeys ==
    [][KeyStep =>
        /\ (\/ last'.key.code \in {"q", "Esc"}
            \/ (last'.key.code = "c" /\ "CONTROL" \in last'.key.mods))
              => /\ state'.running = FALSE
                 /\ last'.ret = TRUE
                 /\ state'.views = state.views
                 /\ state'.automatic_refresh = state.automatic_refresh
                 /\ state'.last_update = state.last_update
        /\ last'.key = Key("c") => state'.running = state.running]_vars

C9_Witness ==
    /\ last.op = "key"
    /\ last.key = Ctrl("c")
    /\ last.ret
    /\ ~state.running
    /\ ~state.automatic_refresh
    /\ state.views.current = "Help"

\* C10: once a quit key was pressed the loop performs no further sampler
\* refresh and draws no further frame.
C10_QuitStopsLoop ==
    [][~state.running => (refreshes' = refreshes /\ frames' = frames)]_vars

C12_Function ==
    /\ toggle_automatic_refresh(toggle_automatic_refresh(state)) = state
    /\ handle_key_event(features, Key("p"),
                        handle_key_event(features, Key("p"), state, now).state,
                        now).state = state

C12_Step ==
    (KeyStep /\ last'.key = Key("p"))
       => /\ state' = [state EXCEPT !.automatic_refresh = ~state.automatic_refresh]
          /\ last'.ret = TRUE

\* C12: 'p' negates automatic_refresh, returns true and leaves the view,
\* running and last_update alone; 'p' twice gives the UiState back.
C12_PauseToggle == []C12_Function /\ [][C12_Step]_vars

C12_Witness ==
    /\ last.op = "key"
    /\ last.key = Key("p")
    /\ last.ret
    /\ state.automatic_refresh
    /\ state.views.current = "CpuDetailed"

\* C13: 'r' sets last_update to the current time and returns true, paused or
\* not, and leaves the view, running and automatic_refresh alone.
C13_ForceRefreshKey ==
    [][(KeyStep /\ last'.key = Key("r"))
         => /\ state' = [state EXCEPT !.last_update = now]
            /\ last'.ret = TRUE]_vars

C13_Witness ==
    /\ last.op = "key"
    /\ last.key = Key("r")
    /\ ~state.automatic_refresh
    /\ now > 0
    /\ state.last_update = now

\* C15: should_update(refresh_rate) is true exactly when automatic_refresh is
\* true and at least refresh_rate has elapsed since last_update.
C15_ShouldUpdate ==
    last.op = "should_update" =>
        /\ last.ret <=> (state.automatic_refresh
                           /\ now - state.last_update >= RefreshRate)
        /\ ~state.automatic_refresh => ~last.ret
        /\ now - state.last_update < RefreshRate => ~last.ret

C15_Witness ==
    /\ last.op = "should_update"
    /\ last.ret
    /\ now - state.last_update = RefreshRate

C16_Target(code) ==
    CASE code = "1" -> "Overview"
      [] code = "2" -> "CpuDetailed"
      [] code = "3" -> "MemoryDetailed"
      [] OTHER -> "GpuDetailed"

C16_GoTo(s, view_type) ==
    IF \E i \in 1..Len(s.views.available) : s.views.available[i] = view_type
    THEN [s EXCEPT !.views.current = view_type]
    ELSE s

C17_Bound(k) ==
    \/ k.code \in {"q", "Esc", "Tab", "BackTab", "1", "2", "3", "4", "?", "h",
                   "p", "r"}
    \/ (k.code = "c" /\ "CONTROL" \in k.mods)

\* C17: a key that is none of q, Esc, Ctrl+C, Tab, Shift+Tab, 1-4, ?, h, p, r
\* leaves the whole UiState as it is and returns false.
C17_OtherKeys ==
    [][(KeyStep /\ ~C17_Bound(last'.key))
         => state' = state /\ last'.ret = FALSE]_vars

C17_Witness ==
    /\ last.op = "key"
    /\ last.key = Key("c")
    /\ ~last.ret
    /\ state.running
    /\ ~state.automatic_refresh
    /\ state.views.current = "Help"

\* C11: while the loop runs the terminal is in raw mode, on the alternate
\* screen, with the cursor hidden; after display has returned it is out of
\* raw mode, off the alternate screen, with the cursor visible.
C11_TerminalLifecycle ==
    /\ pc \in {"draw", "gpu", "sleep"}
          => /\ terminal.raw_mode
             /\ terminal.alternate_screen
             /\ ~terminal.cursor_visible
    /\ pc = "exited"
          => /\ ~terminal.raw_mode
             /\ ~terminal.alternate_screen
             /\ terminal.cursor_visible

\* C14: as long as a pause lasts, the Host Sampler is refreshed only by the
\* step that answers a pending 'r', and by that step exactly once.
C14_PauseThenForce ==
    [][(~state.automatic_refresh /\ ~state'.automatic_refresh)
         => refreshes' - refreshes = (IF forced /\ ~forced' THEN 1 ELSE 0)]_vars

\* C18: within one iteration the sampler refresh, the CPU and
\* memory reads and the GPU read all come before any part of the frame is
\* drawn.
C18_ReadsBeforeFrame ==
    [][/\ Len(frame'.drawn) > Len(frame.drawn)
            => {"sampler", "cpu", "memory"} \subseteq frame.reads
       /\ ("gpu" \in frame'.reads /\ "gpu" \notin frame.reads)
            => frame.drawn = <<>>]_vars

\* the indices at which device_by_index succeeded
Enumerated(devs) == {i \in 1..Len(devs) : devs[i].device.ok}

\* the place in the returned sequence of the device at index i
Place(devs, i) == Cardinality({j \in Enumerated(devs) : j <= i})

MetricsOf(r, g) ==
    /\ g.name = (IF r.name.ok THEN r.name.v ELSE "Unknown NVIDIA GPU")
    /\ g.utilization = (IF r.util.ok THEN r.util.v ELSE 0)
    /\ g.temperature = (IF r.temp.ok THEN r.temp.v ELSE 0)
    /\ r.mem.ok => g.total_memory * MB <= r.mem.v[1]
                   /\ r.mem.v[1] < (g.total_memory + 1) * MB
                   /\ g.used_memory * MB <= r.mem.v[2]
                   /\ r.mem.v[2] < (g.used_memory + 1) * MB
    /\ ~r.mem.ok => <<g.total_memory, g.used_memory, g.memory_usage>>
                       = <<0, 0, 0>>

C19_Isolated(devs, out) ==
    /\ Len(out) = Cardinality(Enumerated(devs))
    /\ \A i \in Enumerated(devs) : MetricsOf(devs[i], out[Place(devs, i)])

\* C19: a probe returns exactly the devices that device_by_index returned,
\* in index order, whatever failed at the other indices; each metric of a
\* returned device that failed shows its fallback ("Unknown NVIDIA GPU", 0,
\* (0, 0, 0), 0) and the others show what the device answered.
C19_FaultIsolation ==
    (last.op = "get_gpu_info" /\ last.gpu = "probe" /\ monitor.nvml)
        => \A reply \in hw :
              reply.count.ok => C19_Isolated(reply.devs, gpu_ret.info)

C19_Witness ==
    /\ last.op = "get_gpu_info"
    /\ last.gpu = "probe"
    /\ monitor.nvml
    /\ hw = {[count |-> Ok(2), devs |-> <<LostDevice, NoNameDevice>>]}
    /\ Len(gpu_ret.info) = 1
    /\ gpu_ret.info[1].name = "Unknown NVIDIA GPU"
    /\ gpu_ret.info[1].temperature = 55

InRange(v) == v.kind = "finite" /\ 0 <= v.x /\ v.x <= 800

ClampedValue(v) ==
    IF v.kind = "inf" THEN (IF v.x < 0 THEN F32(0) ELSE F32(800))
    ELSE IF v.x < 0 THEN F32(0)
    ELSE IF v.x > 800 THEN F32(800)
    ELSE v

ClampedWidth(w) == IF w < 10 THEN 10 ELSE IF w > 200 THEN 200 ELSE w

RoundedCells(x, width) == (2 * x * width + 800) \div 1600

\* C21: draw writes the title padded to 15 columns, then exactly width bar
\* cells of which round(value * width / 100) are filled and the rest empty,
\* with 0 <= filled <= width, then a value field of 7 characters.
C21_BarLayout ==
    (chart.line.drawn /\ chart.bar.value.kind = "finite")
        => /\ chart.line.title_cols = padded(Len(chart.bar.title), 15)
           /\ chart.line.filled_cells + chart.line.empty_cells
                 = chart.bar.width
           /\ chart.line.filled_cells \in 0..chart.bar.width
           /\ chart.line.filled_cells
                 = RoundedCells(chart.bar.value.x, chart.bar.width)
           /\ chart.line.value_cols = 7

ColorOf(v) ==
    IF v.kind = "finite" /\ v.x > 640 THEN "Red"
    ELSE IF v.kind = "finite" /\ v.x > 400 THEN "Yellow"
    ELSE "Green"

\* C22: a chart is red when its stored value is above 80, yellow when it is
\* above 50 and at most 80, green otherwise (50 is green, 80 is yellow), and
\* the filled cells, when there are any, have the colour of the value text.
C22_ColorThresholds ==
    chart.built
        => /\ get_color(chart.bar) = ColorOf(chart.bar.value)
           /\ chart.line.drawn
                 => /\ chart.line.value_color = ColorOf(chart.bar.value)
                    /\ chart.line.filled_cells > 0
                          => chart.line.filled_color = chart.line.value_color

C22_Witness ==
    /\ chart.line.drawn
    /\ chart.bar.value = F32(640)
    /\ chart.line.filled_cells > 0
    /\ chart.line.filled_color = "Yellow"
    /\ chart.line.value_color = "Yellow"

\* the percentage of used in total, in thousandths, 0 for an empty total
UsagePercent(used, total) ==
    IF total = 0 THEN F32(0)
    ELSE [kind |-> "finite", x |-> (used * 100000) \div total]

\* C23: a memory usage percentage, the host's and each GPU's, is 0 when the
\* total is 0 MB and 100 * used / total otherwise.
C23_MemoryMath ==
    /\ "memory" \in frame.reads
          => frame.memory.mem_usage_pct
                = UsagePercent(frame.memory.used_mem, frame.memory.total_mem)
    /\ \A i \in 1..Len(gpu_ret.info) :
          F32(gpu_ret.info[i].memory_usage)
             = UsagePercent(gpu_ret.info[i].used_memory,
                            gpu_ret.info[i].total_memory)

\* C24: at every second and for every kind of device the synthesized
\* utilization is clamp(base_rate + time_factor, 5, 95), hence in [5, 95],
\* where base_rate is 35 + load * 40 for a low-power device, else
\* 10 + load * 60 for a headless one, else 20 + load * 50, time_factor is
\* (seconds mod 10) * 3 and the load is in [0, 1].
C24_AppleUtilization ==
    synth.by # "none"
        => LET load == synth.load
               base_rate == IF synth.is_low_power THEN 35000 + load * 40
                            ELSE IF synth.is_headless THEN 10000 + load * 60
                            ELSE 20000 + load * 50
               sum == base_rate + (synth.wall.seconds % 10) * 3000
           IN  /\ load \in 0..1000
               /\ synth.utilization \in 5000..95000
               /\ sum > 95000 => synth.utilization = 95000
               /\ sum < 5000 => synth.utilization = 5000
               /\ sum \in 5000..95000 => synth.utilization = sum

C24_Witness ==
    /\ synth.by = "gpu.rs"
    /\ synth.is_low_power
    /\ synth.is_headless
    /\ synth.wall = [seconds |-> 19, sin |-> 1000]
    /\ synth.load = 1000
    /\ synth.utilization = 95000

\* C25: on a terminal of any size, 0 and 1 included, no subtraction of
\* draw_ui_frame, draw_content_box or draw_memory_view underflows, and so no
\* painter panics.
C25_NoUnderflow == ~render.underflow /\ ~render.panicked

C26_Step == ~state.running => ~state'.running

\* C26: a UiState starts running, and once a key has stopped it no key and
\* no other operation on it makes it run again.
C26_RunningAbsorbing ==
    /\ []((last.op = "new") => state.running)
    /\ [][C26_Step]_vars

C26_Witness ==
    /\ ~state.running
    /\ last.op = "key"
    /\ last.key = Key("p")
    /\ last.ret

\* C27: in every registry and at every current view of it, next then prev
\* and prev then next give back the view state, and so do Tab then
\* Shift+Tab and Shift+Tab then Tab.
C27_NextPrevInverse ==
    LET tab == handle_key_event(features, Key("Tab"), state, now).state
        back == handle_key_event(features, Key("BackTab"), state, now).state
    IN  /\ Views_prev(Views_next(state.views)) = state.views
        /\ Views_next(Views_prev(state.views)) = state.views
        /\ handle_key_event(features, Key("BackTab"), tab, now).state.views
              = state.views
        /\ handle_key_event(features, Key("Tab"), back, now).state.views
              = state.views

C27_Witness ==
    /\ last.op = "key"
    /\ last.key = Key("BackTab")
    /\ state.views.current = "Help"
    /\ Views_next(state.views).current = "Overview"
    /\ Len(state.views.available) = 5

\* what one call makes of a history: one entry more, and the oldest one
\* gone when 10 were held
Slid(before, after) ==
    /\ Len(after) = (IF Len(before) >= 10 THEN 10 ELSE Len(before) + 1)
    /\ \A k \in 1..(Len(after) - 1) :
          after[k] = before[k + (IF Len(before) >= 10 THEN 1 ELSE 0)]

C28_Window ==
    /\ \A i \in 1..Len(mac.performance_history) :
          Len(mac.performance_history[i]) <= 10
    /\ \A t \in Callers :
          callers[t].pc = "return"
             => \A i \in 1..Len(mac.devices) :
                   /\ Slid(callers[t].before[i], mac.performance_history[i])
                   /\ mac.performance_history[i][
                          Len(mac.performance_history[i])][1] >= callers[t].now

C28_Step ==
    \A i \in 1..Len(mac.performance_history) :
        \/ mac'.performance_history[i] = mac.performance_history[i]
        \/ /\ last'.op = "mac_device"
           /\ Slid(mac.performance_history[i], mac'.performance_history[i])

\* C28: every device's history holds at most 10 entries; a get_gpu_info()
\* call adds exactly one entry to every device's history, and a history
\* that is full loses its oldest entry for it.
C28_SlidingWindow == []C28_Window /\ [][C28_Step]_vars

C28_Witness ==
    /\ callers[1].pc = "return"
    /\ Len(callers[1].before[2]) = 10
    /\ callers[1].before[2][1][1] = 0
    /\ callers[1].before[2][2][1] = 250
    /\ Len(mac.performance_history[2]) = 10
    /\ mac.performance_history[2][1][1] = 250
    /\ mac.performance_history[2][10][1] = 1000

Holds(t) == {m \in DOMAIN mac.locks : mac.locks[m] = t}

Waiting(t) ==
    \/ callers[t].pc = "lock_time" /\ mac.locks.last_sample_time # 0
    \/ callers[t].pc = "lock_history" /\ mac.locks.performance_history # 0

\* C29: a caller never holds both mutexes, holds none when it is not in a
\* call, holds the history mutex whenever it updates the history, and no
\* two callers update it at once; some caller in a call can always go on.
C29_LockDiscipline ==
    /\ \A t \in Callers :
          /\ Cardinality(Holds(t)) <= 1
          /\ callers[t].pc = "idle" => Holds(t) = {}
          /\ callers[t].pc = "sample" <=> Holds(t) = {"last_sample_time"}
          /\ callers[t].pc \in {"devices", "return"}
                <=> Holds(t) = {"performance_history"}
    /\ \A t, u \in Callers :
          (/\ callers[t].pc \in {"devices", "return"}
           /\ callers[u].pc \in {"devices", "return"}) => t = u
    /\ (\E t \in Callers : callers[t].pc # "idle")
          => \E t \in Callers : callers[t].pc # "idle" /\ ~Waiting(t)

C29_Witness ==
    /\ callers[1].pc = "devices"
    /\ callers[1].i = 2
    /\ callers[2].pc = "sample"
    /\ mac.locks = [last_sample_time |-> 2, performance_history |-> 1]
    /\ last.op = "mac_lock_time"

====
